---- MODULE Spec2Model ----
(***************************************************************************)
(* Model of templates/granola-collector.py: the incremental meeting        *)
(* collector.  Every invocation ("run") of the script is a process that    *)
(* executes main(): flock the lock file, load the cache, resolve the       *)
(* cutoff from the state file, walk the meetings, write one inbox file per *)
(* selected meeting, and finally overwrite the state file.                 *)
(*                                                                         *)
(* Time.  An instant is an integer number of ticks (TicksPerSecond ticks   *)
(* per second) counted from the model origin, which is Unix time 10^9 s.   *)
(* The local zone is taken to be UTC, so that datetime.fromtimestamp, the  *)
(* naive ISO texts and datetime.now() share one scale.  Numbers found in   *)
(* the cache are kept as pairs (hi, lo) meaning hi * 10^6 + lo, because    *)
(* the millisecond values the code tests against 1e12 exceed 32 bits.      *)
(*                                                                         *)
(* Text.  Identifiers, titles and file names are sequences of one-         *)
(* character strings; a date ("2001-10-09", "undated") is one atom.        *)
(***************************************************************************)
EXTENDS Integers, Sequences, FiniteSets, TLC

\* ---------------------------------------------------------------- bounds
NumRuns == 2
MaxRecords == 2
MaxTicks == 1
MaxNamed == 3
TicksPerSecond == 2

\* ------------------------------------------------------ program constants
LookbackDays == 30
IdPrefixLen == 8
SlugCap == 80
TRANSCRIPT_CAP == 5000

Million == 1000 * 1000
SecondsPerDay == 24 * 3600
Lookback == LookbackDays * SecondsPerDay * TicksPerSecond

Runs == 1..NumRuns
NoRun == 0

\* --------------------------------------------------------------- text
Str_granola == <<"g", "r", "a", "n", "o", "l", "a", "-">>
Str_md == <<".", "m", "d">>
Str_untitled == <<"u", "n", "t", "i", "t", "l", "e", "d">>
IllegalChars == {"<", ">", ":", "\"", "/", "\\", "|", "?", "*"}
Whitespace == {" ", "\t", "\n"}

Lower(c) ==
  CASE c = "S" -> "s"
    [] c = "Y" -> "y"
    [] c = "N" -> "n"
    [] c = "C" -> "c"
    [] OTHER -> c

RECURSIVE RemoveChars(_, _)
RemoveChars(s, bad) ==
  IF s = <<>> THEN <<>>
  ELSE IF Head(s) \in bad THEN RemoveChars(Tail(s), bad)
  ELSE <<Head(s)>> \o RemoveChars(Tail(s), bad)

RECURSIVE LStrip(_, _)
LStrip(s, chars) ==
  IF s # <<>> /\ Head(s) \in chars THEN LStrip(Tail(s), chars) ELSE s

RECURSIVE RStrip(_, _)
RStrip(s, chars) ==
  IF s # <<>> /\ s[Len(s)] \in chars
  THEN RStrip(SubSeq(s, 1, Len(s) - 1), chars)
  ELSE s

Strip(s, chars) == RStrip(LStrip(s, chars), chars)

\* re.sub(r"<chars>+", "-", s): every maximal run of chars becomes one "-"
RECURSIVE CollapseRuns(_, _)
CollapseRuns(s, chars) ==
  IF s = <<>> THEN <<>>
  ELSE IF Head(s) \in chars
       THEN <<"-">> \o CollapseRuns(LStrip(s, chars), chars)
       ELSE <<Head(s)>> \o CollapseRuns(Tail(s), chars)

MapLower(s) == [i \in 1..Len(s) |-> Lower(s[i])]

Prefix(s, n) == SubSeq(s, 1, IF Len(s) < n THEN Len(s) ELSE n)

slugify(title) ==
  LET s1 == RemoveChars(title, IllegalChars)
      s2 == MapLower(CollapseRuns(Strip(s1, Whitespace), Whitespace))
      s3 == Strip(CollapseRuns(s2, {"-"}), {"-"})
  IN IF s3 # <<>> THEN Prefix(s3, SlugCap) ELSE Str_untitled

\* date: "" stands for get_meeting_date(meeting) returning None
inbox_filename(meeting) ==
  LET date_str == IF meeting.date # "" THEN meeting.date ELSE "undated"
  IN Str_granola \o <<date_str, "-">> \o slugify(meeting.title) \o Str_md

\* lines 189-191: base, ext = fname.rsplit(".", 1); f"{base}-{id[:8]}.{ext}"
dedup_filename(fname, meeting) ==
  SubSeq(fname, 1, Len(fname) - Len(Str_md))
    \o <<"-">> \o Prefix(meeting.id, IdPrefixLen) \o Str_md

\* ------------------------------------------------------- the document
\* A text is a sequence of runs [c, n], n copies of c; c is one character in
\* the bodies of a record and in the truncation marker, and a whole fixed
\* string in the labels of the document.
Run(c, n) == <<[c |-> c, n |-> n]>>
Lit(str) == <<[c |-> str, n |-> 1]>>
Chars(s) == [i \in 1..Len(s) |-> [c |-> s[i], n |-> 1]]

RECURSIVE TLen(_)
TLen(t) == IF t = <<>> THEN 0 ELSE Head(t).n + TLen(Tail(t))

\* t[:k]
RECURSIVE TTake(_, _)
TTake(t, k) ==
  IF t = <<>> \/ k <= 0 THEN <<>>
  ELSE IF Head(t).n <= k THEN <<Head(t)>> \o TTake(Tail(t), k - Head(t).n)
  ELSE Run(Head(t).c, k)

\* t.strip() == ""
TBlank(t) == \A i \in 1..Len(t) : t[i].c \in Whitespace

\* a body an accessor returns: None, or a string
None == [present |-> FALSE, runs |-> <<>>]
Body(t) == [present |-> TRUE, runs |-> t]

Str_truncated ==
  <<"\n", "\n", "[", ".", ".", ".", " ", "t", "r", "a", "n", "s", "c", "r", "i",
    "p", "t", " ", "t", "r", "u", "n", "c", "a", "t", "e", "d", "]">>

\* ", ".join(participants)
RECURSIVE JoinNames(_)
JoinNames(names) ==
  IF names = <<>> THEN <<>>
  ELSE IF Len(names) = 1 THEN Lit(names[1])
  ELSE Lit(names[1]) \o Lit(", ") \o JoinNames(Tail(names))

\* line 125
exceeds_cap_inclusive(transcript) == TLen(transcript) >= TRANSCRIPT_CAP
exceeds_cap(transcript) == TLen(transcript) > TRANSCRIPT_CAP

\* lines 124-129: the last line of the document
transcript_line(transcript) ==
  IF transcript.present /\ transcript.runs # <<>> /\ ~TBlank(transcript.runs)
  THEN IF exceeds_cap(transcript.runs)
       THEN TTake(transcript.runs, TRANSCRIPT_CAP) \o Chars(Str_truncated)
       ELSE transcript.runs
  ELSE Lit("No transcript available")

\* lines 94-131.  The document is the sequence of its lines, which line 131
\* joins; a body of None makes notes.strip() or summary.strip() raise
\* AttributeError.  date is "" for None, and a day and a time otherwise.
format_inbox_file(meeting) ==
  LET date_str == IF meeting.date.day # ""
                  THEN Lit(meeting.date.day) \o Lit(" ") \o Lit(meeting.date.time)
                  ELSE Lit("Unknown")
      participants_str == IF meeting.participants # <<>>
                          THEN JoinNames(meeting.participants)
                          ELSE Lit("Unknown")
  IN IF ~meeting.notes.present \/ ~meeting.summary.present
     THEN [kind |-> "raised", error |-> "AttributeError", lines |-> <<>>]
     ELSE [kind |-> "doc", error |-> "",
           lines |->
             << Lit("# Meeting: ") \o Chars(meeting.title),
                <<>>,
                Lit("**Date**: ") \o date_str,
                Lit("**Participants**: ") \o participants_str,
                Lit("**Source**: granola"),
                Lit("**Meeting ID**: ") \o Chars(meeting.id),
                <<>>,
                Lit("## Notes"),
                IF ~TBlank(meeting.notes.runs) THEN meeting.notes.runs
                ELSE Lit("No notes available"),
                <<>>,
                Lit("## Summary"),
                IF ~TBlank(meeting.summary.runs) THEN meeting.summary.runs
                ELSE Lit("No summary available"),
                <<>>,
                Lit("## Transcript Highlights"),
                transcript_line(meeting.transcript) >>]

\* ------------------------------------------------- timestamps in records
NoVal == [kind |-> "none", hi |-> 0, lo |-> 0, frac |-> 0, zone |-> ""]
BadStr == [kind |-> "str", hi |-> 0, lo |-> 0, frac |-> 0, zone |-> "garbage"]
EmptyStr == [kind |-> "str", hi |-> 0, lo |-> 0, frac |-> 0, zone |-> "empty"]
\* a number beyond the range of the platform's time_t, such as 1e25 or the
\* float that json reads from 1e400
NumHuge == [kind |-> "huge", hi |-> 0, lo |-> 0, frac |-> 0, zone |-> ""]
\* the number 3 * 10^14: as milliseconds, an instant after the year 9999
NumFarMs == [kind |-> "int", hi |-> 300 * Million, lo |-> 0, frac |-> 0, zone |-> ""]
\* an integer number of seconds: 10^9 + s
IntSec(s) ==
  [kind |-> "int", hi |-> 1000 + s \div Million, lo |-> s % Million,
   frac |-> 0, zone |-> ""]
\* an integer number of milliseconds: (10^9 + s) * 1000 + milli
IntMs(s, milli) ==
  [kind |-> "int", hi |-> Million + s \div 1000,
   lo |-> (s % 1000) * 1000 + milli, frac |-> 0, zone |-> ""]
\* an ISO text for the wall time s seconds after the origin; frac is the
\* fractional part in milliseconds, -1 when the text has no "." part; zone is
\* "" (none), "Z", "+" (an explicit +hh:mm) or "-" (an explicit -hh:mm)
IsoStr(s, frac, zone) ==
  [kind |-> "str", hi |-> 0, lo |-> s, frac |-> frac, zone |-> zone]

\* what the conversion of one field comes to: an instant (ok), a failure the
\* except clause of line 89 catches (not ok, error ""), or an exception that
\* clause does not catch (error)
Unresolved == [ok |-> FALSE, t |-> 0, aware |-> FALSE, error |-> ""]
Resolved(t, aware) == [ok |-> TRUE, t |-> t, aware |-> aware, error |-> ""]
Uncaught(e) == [ok |-> FALSE, t |-> 0, aware |-> FALSE, error |-> e]

\* line 77: "if not val" (None, 0, "")
Falsy(val) ==
  \/ val.kind = "none"
  \/ val.kind = "int" /\ val.hi = 0 /\ val.lo = 0
  \/ val.kind = "str" /\ val.zone = "empty"

\* a variant of the test of line 81: val >= 1e12
Above1e12_inclusive(val) == val.hi >= Million

\* line 81: val > 1e12
Above1e12(val) == val.hi > Million \/ (val.hi = Million /\ val.lo > 0)

\* datetime.fromtimestamp rejects years after 9999 with ValueError
YearOutOfRange(val) ==
  val.hi > 253402 \/ (val.hi = 253402 /\ val.lo >= 300800)

\* the same for val / 1000 (line 82)
MsYearOutOfRange(val) ==
  val.hi > 253402300 \/ (val.hi = 253402300 /\ val.lo >= 800000)

\* lines 80-88 for one field value: the instant, or Unresolved when the
\* conversion raises ValueError/OSError (line 89); datetime.fromtimestamp
\* raises OverflowError for a number out of the range of time_t
parse_field(val) ==
  IF val.kind = "huge" THEN Uncaught("OverflowError")
  ELSE IF val.kind = "int" THEN
    IF Above1e12(val)
    THEN IF MsYearOutOfRange(val) THEN Unresolved
         ELSE Resolved((val.hi - Million) * 1000 * TicksPerSecond
                         + (val.lo * TicksPerSecond) \div 1000, FALSE)
    ELSE IF YearOutOfRange(val) THEN Unresolved
    ELSE Resolved(((val.hi - 1000) * Million + val.lo) * TicksPerSecond, FALSE)
  ELSE IF val.zone = "garbage" THEN Unresolved
  ELSE LET zone == IF val.zone = "Z" THEN "+" ELSE val.zone
           \* lines 86-87: with a "." the text is cut at "+" and then at "."
           stripped == val.frac >= 0
       IN Resolved(val.lo * TicksPerSecond, (~stripped) /\ zone # "")

Fields == <<"updated_at", "created_at", "createdAt">>

RECURSIVE updated_from(_, _)
updated_from(meeting, i) ==
  IF i > Len(Fields) THEN Unresolved
  ELSE LET val == meeting.ts[i]
       IN IF Falsy(val) THEN updated_from(meeting, i + 1)
          ELSE IF parse_field(val).ok \/ parse_field(val).error # ""
               THEN parse_field(val)
          ELSE updated_from(meeting, i + 1)

get_updated_at(meeting) == updated_from(meeting, 1)

\* ------------------------------------------------------- the state file
StateAbsent == [kind |-> "absent", s |-> 0]
StateEmpty == [kind |-> "empty", s |-> 0]
StateGarbage == [kind |-> "garbage", s |-> 0]
\* a file read_text() fails on: no permission, or bytes that are not text in
\* the locale's encoding (UnicodeDecodeError)
StateUnreadable == [kind |-> "unreadable", s |-> 0]
StateInstant(s) == [kind |-> "instant", s |-> s]
\* the text of an instant with white space around it, e.g. a final newline
StatePadded(s) == [kind |-> "padded", s |-> s]

\* a variant of format_now: the instant is rounded up to the next second
format_now_ceil(now) ==
  StateInstant((now + TicksPerSecond - 1) \div TicksPerSecond)

\* line 202: datetime.now().strftime("%Y-%m-%dT%H:%M:%S")
format_now(now) == StateInstant(now \div TicksPerSecond)

\* a variant of get_cutoff: the state file is ignored
get_cutoff_lookback(sf, now) == now - Lookback

\* lines 61-70; the caller has excluded the unreadable file (read_text raises)
get_cutoff(sf, now) ==
  IF sf.kind \in {"instant", "padded"}
  THEN sf.s * TicksPerSecond
  ELSE now - Lookback

\* ------------------------------------------------------------ the cache
\* The first run of the model starts NowSec0 seconds after the origin; the
\* state file, when it holds an instant at the start, holds W0.
NowSec0 == LookbackDays * SecondsPerDay + 1000
W0 == NowSec0 - 20
Date1 == "2001-10-09"

Chars_idA == <<"a", "b", "c", "d", "e", "f", "g", "h", "1">>
Chars_idB == <<"a", "b", "c", "d", "e", "f", "g", "h", "2">>
Chars_idC == <<"c", "3">>
Chars_idD == <<"d", "d", "d", "d", "d", "d", "d", "d", "d", "4">>
Chars_idE == <<"e", "5">>
Chars_idF == <<"f", "6">>
Chars_idG == <<"g", "7">>
Chars_idH == <<"h", "8">>
Chars_idI == <<"i", "9">>
Chars_idJ == <<"j", "0">>
Title_Sync == <<"S", "y", "n", "c">>
Title_sync == <<" ", "s", "y", "n", "c", ":", " ">>
Title_Plan == <<"p", "l", "a", "n">>

Meeting(id, title, date, content, updated_at, created_at, createdAt) ==
  [id |-> id, title |-> title, date |-> date, content |-> content,
   ts |-> <<updated_at, created_at, createdAt>>]

\* The records a cache of the model is drawn from, in cache order.
Catalog ==
  << Meeting(Chars_idA, Title_Sync, Date1, TRUE, IntSec(W0), NoVal, NoVal),
     Meeting(Chars_idB, Title_sync, Date1, TRUE, IntMs(W0 + 5, 500), NoVal, NoVal),
     Meeting(Chars_idD, Title_Sync, Date1, TRUE, IsoStr(W0 + 7, 250, "Z"), NoVal, NoVal),
     Meeting(Chars_idC, Title_Plan, Date1, TRUE, IsoStr(W0 + 6, -1, "Z"), NoVal, NoVal),
     Meeting(Chars_idE, Title_Plan, "", FALSE, IntSec(W0 + 8), NoVal, NoVal),
     Meeting(Chars_idF, <<>>, "", TRUE, IntSec(W0 - 1), NoVal, NoVal),
     Meeting(Chars_idG, Title_Plan, "", TRUE, BadStr, NoVal, IntSec(0 - 1000 * Million)),
     Meeting(Chars_idH, Title_Plan, "", TRUE, NoVal, IntMs(NowSec0 - LookbackDays * SecondsPerDay, 999), NoVal),
     Meeting(Chars_idI, <<"?">>, Date1, TRUE, BadStr, NoVal, IsoStr(W0 + 9, -1, "")),
     Meeting(Chars_idJ, Title_Plan, Date1, TRUE, EmptyStr, IntSec(NowSec0), NoVal) >>

\* A cache holds up to MaxRecords consecutive records of the catalog.
CacheContents ==
  {SubSeq(Catalog, w[1], w[1] + w[2] - 1) :
     w \in {v \in (1..Len(Catalog)) \X (0..MaxRecords) :
              v[1] + v[2] - 1 <= Len(Catalog)}}

Caches ==
  {[status |-> "absent", records |-> <<>>],
   [status |-> "corrupt", records |-> <<>>]}
    \cup {[status |-> "ok", records |-> c] : c \in CacheContents}

StateFiles ==
  {StateAbsent, StateGarbage, StateUnreadable, StateInstant(W0)}

\* granola_reader.has_content, an accessor of the external cache
has_content(meeting) == meeting.content

\* ------------------------------------------------------------- the state
VARIABLES
  clock,           \* datetime.now(), in ticks
  cache,           \* the external meeting cache
  state_file,      \* STATE_FILE
  inbox,           \* INBOX_DIR: the set of [name, id] files
  lock,            \* the run holding the flock on LOCK_FILE, or NoRun
  pc,              \* where each run is
  exit,            \* the exit status of each run, -1 while it has none
  exc,             \* the exception a run ended with, "" for none
  meetings,        \* _run: meetings
  cutoff,          \* _run: cutoff
  idx,             \* _run: the position of the for loop
  seen_filenames,  \* _run: seen_filenames
  written,         \* _run: written
  fname,           \* _run: fname of the record being written
  logs,            \* the lines each run appended to LOG_FILE
  \* history, read by the properties only
  wmAtStart,       \* state_file when the run started
  inboxAtStart,    \* inbox when the run started
  selected,        \* the ids of the records the run selected
  events,          \* the file writes of the run, in order: "doc" / "wm"
  seq,             \* the number of run starts and run ends so far
  startAt,         \* seq at the start of the run
  endAt,           \* seq at the end of the run
  endedIn,         \* the pc the run terminated from
  wmAtEnd,         \* state_file when the run ended
  inboxAtEnd,      \* inbox when the run ended
  commits,         \* the instants written to STATE_FILE so far, in order
  lockAtStart,     \* the holder of the lock when the run tried it
  docs,            \* the documents the run wrote, in order: [id, name] and
                   \* the name before any suffix
  \* the functions applied on their own
  probe,           \* the argument
  result           \* the value returned, NoResult before the call

vars ==
  <<clock, cache, state_file, inbox, lock, pc, exit, exc, meetings, cutoff,
    idx, seen_filenames, written, fname, logs, wmAtStart, inboxAtStart,
    selected, events, seq, startAt, endAt, endedIn, wmAtEnd, inboxAtEnd,
    commits, lockAtStart, docs, probe, result>>

runVars == <<meetings, cutoff, idx, seen_filenames, written, fname>>
histVars == <<wmAtStart, inboxAtStart, selected, events, lockAtStart>>
endVars == <<exit, exc, endedIn, endAt, wmAtEnd, inboxAtEnd>>
probeVars == <<probe, result>>

NoProbe == [kind |-> "none"]
NoResult == [kind |-> "none"]

Active == {"LockHeld", "CacheLoaded", "Selecting", "Writing", "Committing"}
Terminal == {"Done", "Aborted", "SkippedBusy", "Raised"}

\* the last tick of second NowSec0
ClockInit == NowSec0 * TicksPerSecond + (TicksPerSecond - 1)
ClockMax == ClockInit + MaxTicks

\* INBOX_DIR holds the file an earlier run wrote for the first catalog record
StaleFile == [name |-> inbox_filename(Catalog[1]), id |-> Catalog[1].id]

\* the state before the first run, for a cache and a state file of the sets
Start(caches, state_files, probes) ==
  /\ clock = ClockInit
  /\ cache \in caches
  /\ state_file \in state_files
  /\ inbox = {StaleFile}
  /\ lock = NoRun
  /\ pc = [r \in Runs |-> "Idle"]
  /\ exit = [r \in Runs |-> -1]
  /\ exc = [r \in Runs |-> ""]
  /\ meetings = [r \in Runs |-> <<>>]
  /\ cutoff = [r \in Runs |-> 0]
  /\ idx = [r \in Runs |-> 0]
  /\ seen_filenames = [r \in Runs |-> {}]
  /\ written = [r \in Runs |-> 0]
  /\ fname = [r \in Runs |-> <<>>]
  /\ logs = [r \in Runs |-> <<>>]
  /\ wmAtStart = [r \in Runs |-> StateAbsent]
  /\ inboxAtStart = [r \in Runs |-> {}]
  /\ selected = [r \in Runs |-> {}]
  /\ events = [r \in Runs |-> <<>>]
  /\ seq = 0
  /\ startAt = [r \in Runs |-> 0]
  /\ endAt = [r \in Runs |-> 0]
  /\ endedIn = [r \in Runs |-> ""]
  /\ wmAtEnd = [r \in Runs |-> StateAbsent]
  /\ inboxAtEnd = [r \in Runs |-> {}]
  /\ commits = <<>>
  /\ lockAtStart = [r \in Runs |-> NoRun]
  /\ docs = [r \in Runs |-> <<>>]
  /\ probe \in probes
  /\ result = NoResult

Init == Start(Caches, StateFiles, {NoProbe})

\* ------------------------------------------------------------ the steps
\* line 147: flock(LOCK_EX | LOCK_NB) succeeds iff no other run holds the lock
try_lock_blind(r) == TRUE
try_lock(r) == lock = NoRun

\* lines 154-156: the finally clause of main
release(r) == IF lock = r THEN NoRun ELSE lock

Log(r, line) == logs' = [logs EXCEPT ![r] = Append(@, line)]

\* The run r leaves main() from its current step with exit status code; the
\* step has already fixed state_file' and inbox'.
Leave(r, p, code, e) ==
  /\ pc' = [pc EXCEPT ![r] = p]
  /\ exit' = [exit EXCEPT ![r] = code]
  /\ exc' = [exc EXCEPT ![r] = e]
  /\ endedIn' = [endedIn EXCEPT ![r] = pc[r]]
  /\ seq' = seq + 1
  /\ endAt' = [endAt EXCEPT ![r] = seq + 1]
  /\ wmAtEnd' = [wmAtEnd EXCEPT ![r] = state_file']
  /\ inboxAtEnd' = [inboxAtEnd EXCEPT ![r] = inbox']

\* lines 152-156: _run returns p's exit code; the finally clause unlocks
Return_locked(r, p, code) == Leave(r, p, code, "") /\ UNCHANGED lock
Return(r, p, code) == Leave(r, p, code, "") /\ lock' = release(r)

\* lines 152-156 and 207-208: an exception leaves _run; the finally clause
\* unlocks, the exception reaches the interpreter, which exits with status 1
Raise_locked(r, e) == Leave(r, "Raised", 1, e) /\ UNCHANGED lock
Raise(r, e) == Leave(r, "Raised", 1, e) /\ lock' = release(r)

Goto(r, p) ==
  /\ pc' = [pc EXCEPT ![r] = p]
  /\ UNCHANGED <<endVars, seq, lock>>

\* lines 143-150: open the lock file and try the lock
main(r) ==
  /\ pc[r] = "Idle"
  /\ \A q \in Runs : q < r => pc[q] # "Idle"    \* runs are numbered as they start
  /\ UNCHANGED <<clock, cache, state_file, inbox, runVars, selected, events,
                 commits, docs, probeVars>>
  /\ wmAtStart' = [wmAtStart EXCEPT ![r] = state_file]
  /\ inboxAtStart' = [inboxAtStart EXCEPT ![r] = inbox]
  /\ startAt' = [startAt EXCEPT ![r] = seq + 1]
  /\ lockAtStart' = [lockAtStart EXCEPT ![r] = lock]
  /\ IF try_lock(r)
     THEN /\ lock' = r
          /\ pc' = [pc EXCEPT ![r] = "LockHeld"]
          /\ seq' = seq + 1
          /\ UNCHANGED <<endVars, logs>>
     ELSE /\ Log(r, "skipping")
          /\ pc' = [pc EXCEPT ![r] = "SkippedBusy"]
          /\ exit' = [exit EXCEPT ![r] = 0]
          /\ endedIn' = [endedIn EXCEPT ![r] = "Idle"]
          /\ seq' = seq + 2
          /\ endAt' = [endAt EXCEPT ![r] = seq + 2]
          /\ wmAtEnd' = [wmAtEnd EXCEPT ![r] = state_file]
          /\ inboxAtEnd' = [inboxAtEnd EXCEPT ![r] = inbox]
          /\ UNCHANGED <<exc, lock>>

\* lines 163-168: FileNotFoundError returns 0, any other exception returns 1
on_load_error_strict(status) == [pc |-> "Aborted", code |-> 1]
on_load_error(status) ==
  IF status = "absent"
  THEN [pc |-> "Done", code |-> 0]
  ELSE [pc |-> "Aborted", code |-> 1]

\* lines 160-168: load_cache() and its two except clauses
load_cache(r) ==
  /\ pc[r] = "LockHeld"
  /\ UNCHANGED <<clock, cache, state_file, inbox, cutoff, idx, seen_filenames,
                 written, fname, histVars, startAt, commits, docs, probeVars>>
  /\ IF cache.status = "ok"
     THEN /\ meetings' = [meetings EXCEPT ![r] = cache.records]
          /\ Goto(r, "CacheLoaded")
          /\ UNCHANGED logs
     ELSE /\ Log(r, IF cache.status = "absent" THEN "warning" ELSE "error loading")
          /\ Return(r, on_load_error(cache.status).pc,
                    on_load_error(cache.status).code)
          /\ UNCHANGED meetings

\* lines 170-177: get_cutoff(), the log line, extract_meetings, the counters
resolve_cutoff(r) ==
  /\ pc[r] = "CacheLoaded"
  /\ UNCHANGED <<clock, cache, state_file, inbox, meetings, fname, histVars,
                 startAt, commits, docs, probeVars>>
  /\ IF state_file.kind = "unreadable"
     THEN /\ Raise(r, "OSError")
          /\ UNCHANGED <<cutoff, idx, seen_filenames, written, logs>>
     ELSE /\ cutoff' = [cutoff EXCEPT ![r] = get_cutoff(state_file, clock)]
          /\ logs' = [logs EXCEPT ![r] =
               IF state_file.kind \in {"empty", "garbage"}
               THEN @ \o <<"invalid state file", "processing since">>
               ELSE Append(@, "processing since")]
          /\ idx' = [idx EXCEPT ![r] = 1]
          /\ seen_filenames' = [seen_filenames EXCEPT ![r] = {}]
          /\ written' = [written EXCEPT ![r] = 0]
          /\ Goto(r, "Selecting")

\* line 184: "not updated or updated < cutoff"; comparing an aware datetime
\* with the naive cutoff raises TypeError
Comparable(updated) == ~updated.aware
Skipped(updated, c) == ~updated.ok \/ updated.t < c

\* lines 180-185 for one record: "skip" (continue), "select", or the
\* exception that leaves the loop
examine(meeting, c) ==
  IF ~has_content(meeting) THEN "skip"
  ELSE LET updated == get_updated_at(meeting)
       IN IF updated.error # "" THEN updated.error
          ELSE IF ~updated.ok THEN "skip"
          ELSE IF ~Comparable(updated) THEN "TypeError"
          ELSE IF Skipped(updated, c) THEN "skip"
          ELSE "select"

\* a variant of unique_name: the name is never suffixed
unique_name_plain(meeting, seen) == inbox_filename(meeting)

\* lines 188-191
unique_name(meeting, seen) ==
  IF inbox_filename(meeting) \in seen
  THEN dedup_filename(inbox_filename(meeting), meeting)
  ELSE inbox_filename(meeting)

\* lines 179-192: one iteration of the loop up to the choice of the file
\* name, or the end of the loop (line 199)
select(r) ==
  /\ pc[r] = "Selecting"
  /\ UNCHANGED <<clock, cache, state_file, inbox, meetings, cutoff, written,
                 wmAtStart, inboxAtStart, events, startAt, commits,
                 lockAtStart, docs, probeVars>>
  /\ IF idx[r] > Len(meetings[r])
     THEN /\ Log(r, "wrote")
          /\ Goto(r, "Committing")
          /\ UNCHANGED <<idx, seen_filenames, fname, selected>>
     ELSE LET meeting == meetings[r][idx[r]]
              verdict == examine(meeting, cutoff[r])
          IN IF verdict = "skip"
             THEN /\ idx' = [idx EXCEPT ![r] = @ + 1]
                  /\ Goto(r, "Selecting")
                  /\ UNCHANGED <<seen_filenames, fname, selected, logs>>
             ELSE IF verdict # "select"
             THEN /\ Raise(r, verdict)
                  /\ UNCHANGED <<idx, seen_filenames, fname, selected, logs>>
             ELSE /\ fname' = [fname EXCEPT ![r] =
                                 unique_name(meeting, seen_filenames[r])]
                  /\ seen_filenames' = [seen_filenames EXCEPT ![r] =
                       @ \cup {unique_name(meeting, seen_filenames[r])}]
                  /\ selected' = [selected EXCEPT ![r] = @ \cup {meeting.id}]
                  /\ Goto(r, "Writing")
                  /\ UNCHANGED <<idx, logs>>

\* Path.write_text: open(path, "w") truncates or creates the file, then the
\* text is written; either step can fail with OSError.
WriteOutcomes == {"ok", "open_failed", "write_failed"}

PutFile(dir, name, content) ==
  {f \in dir : f.name # name} \cup {[name |-> name, id |-> content]}

\* the document file of fname[r] after the attempt to write it
inbox_after(r, outcome) ==
  CASE outcome = "ok" -> PutFile(inbox, fname[r], meetings[r][idx[r]].id)
    [] outcome = "open_failed" -> inbox
    [] outcome = "write_failed" -> PutFile(inbox, fname[r], <<>>)

\* the documents the run has written, after the attempt
docs_after(r, outcome) ==
  IF outcome = "ok"
  THEN [docs EXCEPT ![r] =
          Append(@, [id |-> meetings[r][idx[r]].id, name |-> fname[r],
                     base |-> inbox_filename(meetings[r][idx[r]])])]
  ELSE docs

doc_event(outcome) ==
  CASE outcome = "ok" -> <<"doc">>
    [] outcome = "open_failed" -> <<>>
    [] outcome = "write_failed" -> <<"doc_truncated">>

\* a variant of write: a failed write is logged and the loop goes on
write_isolated(r) ==
  /\ pc[r] = "Writing"
  /\ UNCHANGED <<clock, cache, state_file, meetings, cutoff, seen_filenames,
                 fname, wmAtStart, inboxAtStart, selected, startAt, commits,
                 lockAtStart, probeVars>>
  /\ \E outcome \in WriteOutcomes :
       /\ inbox' = inbox_after(r, outcome)
       /\ docs' = docs_after(r, outcome)
       /\ events' = [events EXCEPT ![r] = @ \o doc_event(outcome)]
       /\ written' = [written EXCEPT ![r] = IF outcome = "ok" THEN @ + 1 ELSE @]
       /\ logs' = [logs EXCEPT ![r] =
                     IF outcome = "ok" THEN @ ELSE Append(@, "write failed")]
       /\ idx' = [idx EXCEPT ![r] = @ + 1]
       /\ Goto(r, "Selecting")

\* a variant of write: the state file is advanced after every document
write_checkpoint(r) ==
  /\ pc[r] = "Writing"
  /\ UNCHANGED <<clock, cache, meetings, cutoff, seen_filenames, fname, logs,
                 wmAtStart, inboxAtStart, selected, startAt, lockAtStart,
                 probeVars>>
  /\ \E outcome \in WriteOutcomes :
       /\ inbox' = inbox_after(r, outcome)
       /\ docs' = docs_after(r, outcome)
       /\ IF outcome = "ok"
          THEN /\ state_file' = format_now(clock)
               /\ commits' = Append(commits, clock \div TicksPerSecond)
               /\ events' = [events EXCEPT ![r] = @ \o <<"doc", "wm">>]
               /\ written' = [written EXCEPT ![r] = @ + 1]
               /\ idx' = [idx EXCEPT ![r] = @ + 1]
               /\ Goto(r, "Selecting")
          ELSE /\ events' = [events EXCEPT ![r] = @ \o doc_event(outcome)]
               /\ UNCHANGED <<state_file, commits, written, idx>>
               /\ Raise(r, "OSError")

\* lines 194-197: format the record, write its file, count it
write(r) ==
  /\ pc[r] = "Writing"
  /\ UNCHANGED <<clock, cache, state_file, meetings, cutoff, seen_filenames,
                 fname, logs, wmAtStart, inboxAtStart, selected, startAt,
                 commits, lockAtStart, probeVars>>
  /\ \E outcome \in WriteOutcomes :
       /\ inbox' = inbox_after(r, outcome)
       /\ docs' = docs_after(r, outcome)
       /\ events' = [events EXCEPT ![r] = @ \o doc_event(outcome)]
       /\ IF outcome = "ok"
          THEN /\ written' = [written EXCEPT ![r] = @ + 1]
               /\ idx' = [idx EXCEPT ![r] = @ + 1]
               /\ Goto(r, "Selecting")
          ELSE /\ Raise(r, "OSError")
               /\ UNCHANGED <<written, idx>>

\* line 202: the text written to the state file
watermark_overlap(r) == StateInstant(cutoff[r] \div TicksPerSecond - 1)
watermark_text(r) == format_now(clock)

\* a variant of commit: the state file is written before the loop starts
commit_early(r) ==
  /\ pc[r] = "Selecting" /\ idx[r] = 1 /\ events[r] = <<>>
  /\ Len(meetings[r]) > 0
  /\ UNCHANGED <<clock, cache, inbox, runVars, logs, wmAtStart, inboxAtStart,
                 selected, startAt, lockAtStart, docs, probeVars>>
  /\ state_file' = watermark_text(r)
  /\ commits' = Append(commits, watermark_text(r).s)
  /\ events' = [events EXCEPT ![r] = Append(@, "wm")]
  /\ Goto(r, "Selecting")

\* lines 201-204: overwrite the state file with now, return 0
commit(r) ==
  /\ pc[r] = "Committing"
  /\ UNCHANGED <<clock, cache, inbox, runVars, logs, wmAtStart, inboxAtStart,
                 selected, startAt, lockAtStart, docs, probeVars>>
  /\ \E outcome \in WriteOutcomes :
       CASE outcome = "ok" ->
              /\ state_file' = watermark_text(r)
              /\ commits' = Append(commits, watermark_text(r).s)
              /\ events' = [events EXCEPT ![r] = Append(@, "wm")]
              /\ Return(r, "Done", 0)
         [] outcome = "open_failed" ->
              /\ UNCHANGED <<state_file, events, commits>>
              /\ Raise(r, "OSError")
         [] outcome = "write_failed" ->
              /\ state_file' = StateEmpty
              /\ events' = [events EXCEPT ![r] = Append(@, "wm_truncated")]
              /\ UNCHANGED commits
              /\ Raise(r, "OSError")

\* the wall clock advances
Tick ==
  /\ clock < ClockMax
  /\ clock' = clock + 1
  /\ UNCHANGED <<cache, state_file, inbox, lock, pc, runVars, logs, histVars,
                 seq, startAt, endVars, commits, docs, probeVars>>

Next ==
  \/ \E r \in Runs : main(r)
  \/ \E r \in Runs : load_cache(r)
  \/ \E r \in Runs : resolve_cutoff(r)
  \/ \E r \in Runs : select(r)
  \/ \E r \in Runs : write(r)
  \/ \E r \in Runs : commit(r)
  \/ Tick

Spec == Init /\ [][Next]_vars

\* ----------------------------------------------- caches of colliding names
\* Five records of one meeting date, all with content and all at or after W0:
\* three whose titles have the slug "sync" and whose identifiers share their
\* first 8 characters, the second of them stamped in the second the first
\* run starts in, between two whose slug is "sync-abcdefgh".
Chars_idL == <<"a", "b", "c", "d", "e", "f", "g", "h", "3">>
Title_sync_abc ==
  <<"s", "y", "n", "c", " ", "a", "b", "c", "d", "e", "f", "g", "h">>

NameCatalog ==
  << Meeting(Chars_idD, Title_sync_abc, Date1, TRUE, IntSec(W0 + 2), NoVal, NoVal),
     Meeting(Chars_idA, Title_Sync, Date1, TRUE, IntSec(W0), NoVal, NoVal),
     Meeting(Chars_idB, Title_sync, Date1, TRUE, IntSec(NowSec0), NoVal, NoVal),
     Meeting(Chars_idL, Title_Sync, Date1, TRUE, IntSec(W0 + 1), NoVal, NoVal),
     Meeting(Chars_idE, Title_sync_abc, Date1, TRUE, IntSec(W0 + 3), NoVal, NoVal) >>

\* A cache holds up to MaxNamed consecutive records of this catalog.
NameCaches ==
  {[status |-> "ok", records |-> SubSeq(NameCatalog, w[1], w[1] + w[2] - 1)] :
     w \in {v \in (1..Len(NameCatalog)) \X (0..MaxNamed) :
              v[1] + v[2] - 1 <= Len(NameCatalog)}}

\* the state file holds W0 followed by a newline
InitNames == Start(NameCaches, {StatePadded(W0)}, {NoProbe})

NamesSpec == InitNames /\ [][Next]_vars

\* ------------------------------------------------ the formatter on its own
progVars ==
  <<clock, cache, state_file, inbox, lock, pc, exit, exc, meetings, cutoff,
    idx, seen_filenames, written, fname, logs, wmAtStart, inboxAtStart,
    selected, events, seq, startAt, endAt, endedIn, wmAtEnd, inboxAtEnd,
    commits, lockAtStart, docs>>

Dates == {[day |-> "", time |-> ""], [day |-> Date1, time |-> "09:30"]}
Participants == {<<>>, <<"ann">>, <<"ann", "bob">>}
Notes == {None, Body(<<>>), Body(Run(" ", 2) \o Run("\n", 1)), Body(Run("n", 3))}
Summaries == {None, Body(<<>>), Body(Run("s", 1) \o Run(" ", 1))}
Transcripts ==
  {None, Body(<<>>), Body(Run(" ", 3)),
   Body(Run(" ", TRANSCRIPT_CAP + 1)),
   Body(Run("a", TRANSCRIPT_CAP - 1)),
   Body(Run("a", TRANSCRIPT_CAP)),
   Body(Run("a", TRANSCRIPT_CAP) \o Run("z", 1)),
   Body(Run(" ", TRANSCRIPT_CAP) \o Run("z", 1)),
   Body(Run("a", 1) \o Run("\n", TRANSCRIPT_CAP - 2) \o Run("b", TRANSCRIPT_CAP + 1))}

FormatProbes ==
  {[kind |-> "format", title |-> Title_Sync, id |-> Chars_idA, date |-> d,
    participants |-> ps, notes |-> n, summary |-> su, transcript |-> t] :
     d \in Dates, ps \in Participants, n \in Notes, su \in Summaries,
     t \in Transcripts}

NoCache == [status |-> "absent", records |-> <<>>]

InitFormat == Start({NoCache}, {StateAbsent}, FormatProbes)

\* line 195: content = format_inbox_file(meeting, state)
format ==
  /\ probe.kind = "format" /\ result = NoResult
  /\ result' = format_inbox_file(probe)
  /\ UNCHANGED <<progVars, probe>>

NextFormat == format

FormatSpec == InitFormat /\ [][NextFormat]_vars

\* ------------------------------------------------- the resolver on its own
\* the values a timestamp field is drawn from: absent, 0, "", a text that is
\* no instant, seconds, milliseconds, 10^12, a number out of range, and ISO
\* texts with and without fraction, Z and explicit offset
FieldValues ==
  {NoVal, IntSec(0 - 1000 * Million), EmptyStr, BadStr,
   IntSec(W0 - 5), IntSec(W0 + 1), IntMs(W0 + 2, 500), IntMs(0, 0), NumHuge,
   NumFarMs,
   IsoStr(W0 + 3, -1, ""), IsoStr(W0 + 4, 250, ""),
   IsoStr(W0 + 5, -1, "Z"), IsoStr(W0 + 6, 250, "Z"),
   IsoStr(W0 + 7, -1, "+"), IsoStr(W0 + 8, 250, "-")}

ResolveProbes ==
  {[kind |-> "resolve",
    meeting |-> Meeting(Chars_idA, Title_Sync, Date1, TRUE, v1, v2, v3),
    cutoff |-> W0 * TicksPerSecond] :
     v1 \in FieldValues, v2 \in FieldValues, v3 \in FieldValues}

InitResolve == Start({NoCache}, {StateAbsent}, ResolveProbes)

\* lines 183-185: updated = get_updated_at(meeting) and the test on it
resolve ==
  /\ probe.kind = "resolve" /\ result = NoResult
  /\ result' = [kind |-> "resolved",
                updated |-> get_updated_at(probe.meeting),
                verdict |-> examine(probe.meeting, probe.cutoff)]
  /\ UNCHANGED <<progVars, probe>>

NextResolve == resolve

ResolveSpec == InitResolve /\ [][NextResolve]_vars

\* ------------------------------------------- the cache changes under a run
\* The application that owns the cache adds records while runs are under way.
MaxUpdates == 1

Title_New == <<"n", "e", "w">>

\* the number the application stores for the instant now, in milliseconds
stamp(now) ==
  IntMs(now \div TicksPerSecond,
        ((now % TicksPerSecond) * 1000 + TicksPerSecond - 1) \div TicksPerSecond)

\* the k-th record the application adds, updated at the instant now
Fresh(k, now) ==
  Meeting([i \in 1..k |-> "u"], Title_New, Date1, TRUE, stamp(now), NoVal, NoVal)

Added(records) == {i \in 1..Len(records) : records[i].title = Title_New}

UpdateCaches ==
  {[status |-> "ok", records |-> c] :
     c \in {<<>>, <<Catalog[1]>>}}

InitUpdate == Start(UpdateCaches, {StateAbsent, StateInstant(W0)}, {NoProbe})

\* the application writes a record to the cache file; a run that has called
\* load_cache (line 162) keeps the records it read
update_cache ==
  /\ cache.status = "ok"
  /\ Cardinality(Added(cache.records)) < MaxUpdates
  /\ cache' = [cache EXCEPT !.records =
                 Append(@, Fresh(Cardinality(Added(@)) + 1, clock))]
  /\ UNCHANGED <<clock, state_file, inbox, lock, pc, runVars, logs, histVars,
                 seq, startAt, endVars, commits, docs, probeVars>>

NextUpdate ==
  \/ Next
  \/ update_cache

UpdateSpec == InitUpdate /\ [][NextUpdate]_vars

\* ------------------------------------------------------------ properties
HeldLock(r) == pc[r] \in Terminal /\ endedIn[r] # "Idle"
Count(evs, e) == Cardinality({i \in 1..Len(evs) : evs[i] = e})

\* C1: at most one run at a time is past lock acquisition, and that run is the
\* holder of the lock; a run that found the lock held by another run ended at
\* once with exit status 0, wrote no inbox document and left the state file
\* and the inbox as they were.
C1_MutualExclusion ==
  /\ \A r1, r2 \in Runs :
       pc[r1] \in Active /\ pc[r2] \in Active => r1 = r2
  /\ \A r \in Runs : pc[r] \in Active => lock = r
  /\ \A r \in Runs :
       pc[r] \notin {"Idle", "SkippedBusy"} => lockAtStart[r] = NoRun
  /\ \A r \in Runs :
       pc[r] = "SkippedBusy" =>
         /\ lockAtStart[r] \in Runs \ {r}
         /\ exit[r] = 0
         /\ endAt[r] = startAt[r] + 1
         /\ events[r] = <<>> /\ written[r] = 0 /\ selected[r] = {}
         /\ wmAtEnd[r] = wmAtStart[r]
         /\ inboxAtEnd[r] = inboxAtStart[r]

C1_Witness ==
  \E r1, r2 \in Runs :
    /\ pc[r1] = "Writing"
    /\ pc[r2] = "SkippedBusy" /\ lockAtStart[r2] = r1

\* C2: a run that has terminated does not hold the lock, whatever path it
\* left by; the lock is only ever held by a run that is still running, so a
\* run is skipped only because of a run that was running when it started.
C2_LockReleased ==
  /\ \A r \in Runs : pc[r] \in Terminal => lock # r
  /\ lock # NoRun => pc[lock] \in Active
  /\ \A r \in Runs :
       pc[r] = "SkippedBusy" =>
         LET h == lockAtStart[r]
         IN /\ h \in Runs /\ startAt[h] < startAt[r]
            /\ pc[h] \in Active \/ endAt[h] > startAt[r]
  /\ \A r1, r2 \in Runs :
       HeldLock(r1) /\ startAt[r2] > endAt[r1] => lockAtStart[r2] # r1

C2_Witness ==
  \E r1, r2 \in Runs :
    /\ pc[r1] = "Raised" /\ endedIn[r1] = "Writing"
    /\ startAt[r2] > endAt[r1]
    /\ pc[r2] \in Active

\* C3: under the non-decreasing clock, every instant written to the state
\* file by a successful run is greater than or equal to every instant written
\* by an earlier successful run.
C3_MonotonicWatermark ==
  \A i, j \in 1..Len(commits) : i < j => commits[i] <= commits[j]

C3_Witness ==
  /\ Len(commits) >= 2
  /\ commits[1] < commits[2]
  /\ state_file = StateInstant(commits[2])

\* C4: a successful run has written the state file exactly once, as the last
\* of its file writes and after one document write per selected record; no
\* run writes a document after it wrote the state file.
C4_CommitOrdering ==
  \A r \in Runs :
    /\ pc[r] = "Done" /\ endedIn[r] = "Committing" =>
         /\ Count(events[r], "wm") = 1
         /\ events[r][Len(events[r])] = "wm"
         /\ Count(events[r], "doc") = Cardinality(selected[r])
         /\ Len(events[r]) = Cardinality(selected[r]) + 1
    /\ \A i, j \in 1..Len(events[r]) :
         i < j /\ events[r][i] \in {"wm", "wm_truncated"} =>
           events[r][j] \notin {"doc", "doc_truncated"}

C4_Witness ==
  \E r \in Runs :
    /\ pc[r] = "Done"
    /\ events[r] = <<"doc", "doc", "wm">>

\* C5 as stated: a run that terminated before its commit left the state file
\* as it found it, and the next run over the same cache, finding the state
\* file that run left, selects every record that run selected.
BeforeCommit(r) == pc[r] \in Terminal /\ endedIn[r] # "Committing"
FinishedLoop(r) == pc[r] = "Committing" \/ endedIn[r] = "Committing"
NextAfter(r1, r2) ==
  /\ startAt[r2] > endAt[r1]
  /\ wmAtStart[r2] = wmAtEnd[r1]
  /\ FinishedLoop(r2)

C5_AsStated ==
  \A r1 \in Runs :
    BeforeCommit(r1) =>
      /\ wmAtEnd[r1] = wmAtStart[r1]
      /\ \A r2 \in Runs : NextAfter(r1, r2) => selected[r1] \subseteq selected[r2]

\* C5, amended: a run that terminated before its commit left the state file
\* as it found it; when that state file holds a parseable instant, the next
\* run over the same cache selects every record that run selected.
C5_CrashSafety ==
  \A r1 \in Runs :
    BeforeCommit(r1) =>
      /\ wmAtEnd[r1] = wmAtStart[r1]
      /\ Count(events[r1], "wm") = 0
      /\ wmAtStart[r1].kind = "instant" =>
           \A r2 \in Runs :
             NextAfter(r1, r2) => selected[r1] \subseteq selected[r2]

C5_Witness ==
  \E r1, r2 \in Runs :
    /\ pc[r1] = "Raised" /\ endedIn[r1] = "Writing"
    /\ Cardinality(selected[r1]) = 2
    /\ wmAtStart[r1].kind = "instant"
    /\ NextAfter(r1, r2)
    /\ selected[r1] \subseteq selected[r2]
    /\ clock > ClockInit

Processed(r) ==
  IF pc[r] \in {"Selecting", "Writing"} \/ endedIn[r] \in {"Selecting", "Writing"}
  THEN idx[r] - 1
  ELSE IF FinishedLoop(r) THEN Len(meetings[r]) ELSE 0

C7_Selection ==
  \A r \in Runs :
    /\ pc[r] = "Raised" => endedIn[r] # "Selecting"
    /\ \A i \in 1..Processed(r) :
         LET m == meetings[r][i]
         IN m.id \in selected[r] <=>
              /\ has_content(m)
              /\ get_updated_at(m).ok
              /\ get_updated_at(m).t >= cutoff[r]

\* C8: a run never ends with an exception leaving main(); it ends in Done,
\* Aborted or SkippedBusy with an exit code, after logging a line.
C8_NoEscape ==
  \A r \in Runs :
    pc[r] \in Terminal =>
      /\ pc[r] \in {"Done", "Aborted", "SkippedBusy"}
      /\ exc[r] = ""
      /\ Len(logs[r]) >= 1

\* C9 as stated: the exit status is non-zero only for a run that found the
\* cache present and failed to load it.
C9_AsStated ==
  \A r \in Runs :
    pc[r] \in Terminal =>
      /\ exit[r] \in {0, 1}
      /\ exit[r] # 0 => endedIn[r] = "LockHeld" /\ cache.status = "corrupt"

\* C9, amended: the exit status is 0 for a run that completes, finds the lock
\* busy or finds the cache absent; it is non-zero for a run whose cache load
\* fails and for a run ended by a failure after the cache was loaded.
C9_ExitStatus ==
  \A r \in Runs :
    /\ pc[r] \notin Terminal => exit[r] = -1
    /\ pc[r] \in Terminal =>
         /\ exit[r] \in {0, 1}
         /\ exit[r] = 0 <=>
              \/ pc[r] = "SkippedBusy"
              \/ endedIn[r] = "LockHeld" /\ cache.status = "absent"
              \/ endedIn[r] = "Committing" /\ Count(events[r], "wm") = 1
         /\ exit[r] = 1 <=>
              \/ endedIn[r] = "LockHeld" /\ cache.status = "corrupt"
              \/ pc[r] = "Raised"

C9_Witness ==
  \E r1, r2 \in Runs :
    /\ pc[r1] = "Raised" /\ endedIn[r1] = "Committing" /\ exit[r1] = 1
    /\ pc[r2] = "Done" /\ exit[r2] = 0

\* C10: a run that finds the cache absent ends in Done, one whose cache load
\* fails otherwise ends in Aborted; these runs and the runs skipped on a busy
\* lock write no document, leave the inbox and the state file as they found
\* them and do not hold the lock afterwards.
EarlyEnd(r) == pc[r] \in Terminal /\ endedIn[r] \in {"Idle", "LockHeld"}

C10_ZeroWork ==
  \A r \in Runs :
    /\ pc[r] \in {"CacheLoaded", "Selecting", "Writing", "Committing", "Raised"}
         => cache.status = "ok"
    /\ EarlyEnd(r) =>
         /\ events[r] = <<>> /\ written[r] = 0
         /\ inboxAtEnd[r] = inboxAtStart[r]
         /\ wmAtEnd[r] = wmAtStart[r]
         /\ lock # r
         /\ endedIn[r] = "Idle" => pc[r] = "SkippedBusy"
         /\ endedIn[r] = "LockHeld" =>
              /\ cache.status = "absent" => pc[r] = "Done" /\ exit[r] = 0
              /\ cache.status # "absent" =>
                   cache.status = "corrupt" /\ pc[r] = "Aborted" /\ exit[r] = 1

C10_Witness ==
  \E r1, r2 \in Runs :
    /\ pc[r1] = "Done" /\ endedIn[r1] = "LockHeld"
    /\ pc[r2] = "SkippedBusy"
    /\ inboxAtEnd[r1] = {StaleFile} /\ inbox = {StaleFile}

\* C11: when a run that committed the state file is followed by a run over the
\* same cache, and every record whose update instant resolves has it earlier
\* than the instant the first run committed, the second run selects and
\* writes no document and leaves the inbox as it found it; the instant the
\* state file holds after the second run is not earlier than the one the
\* first run committed.
Succeeded(r) == pc[r] = "Done" /\ endedIn[r] = "Committing"

AllEarlier(records, wm) ==
  \A i \in 1..Len(records) :
    get_updated_at(records[i]).ok =>
      get_updated_at(records[i]).t < wm.s * TicksPerSecond

Rerun(r1, r2) ==
  /\ Succeeded(r1)
  /\ pc[r2] # "Idle" /\ startAt[r2] > endAt[r1]
  /\ wmAtStart[r2] = wmAtEnd[r1]
  /\ meetings[r1] = cache.records
  /\ AllEarlier(cache.records, wmAtEnd[r1])

C11_Idempotent ==
  \A r1, r2 \in Runs :
    Rerun(r1, r2) =>
      /\ written[r2] = 0 /\ selected[r2] = {} /\ docs[r2] = <<>>
      /\ Count(events[r2], "doc") + Count(events[r2], "doc_truncated") = 0
      /\ pc[r2] \in Terminal =>
           /\ inboxAtEnd[r2] = inboxAtStart[r2]
           /\ wmAtEnd[r2].kind = "instant" => wmAtEnd[r2].s >= wmAtEnd[r1].s
           /\ Succeeded(r2) => wmAtEnd[r2].kind = "instant"

C11_Witness ==
  \E r1, r2 \in Runs :
    /\ Rerun(r1, r2) /\ Succeeded(r2)
    /\ written[r1] = 2 /\ written[r2] = 0
    /\ wmAtEnd[r2].s > wmAtEnd[r1].s

\* C12: the documents a run writes go to pairwise distinct file names.
C12_UniqueNames ==
  \A r \in Runs :
    \A i, j \in 1..Len(docs[r]) :
      i # j => docs[r][i].name # docs[r][j].name

\* the unsuffixed name of the i-th document of the run
Base(r, i) == docs[r][i].base
SameKey(r, i) == {j \in 1..Len(docs[r]) : Base(r, j) = Base(r, i)}
\* an earlier record of another date or slug was written to the unsuffixed
\* name of the i-th document
Taken(r, i) ==
  \E k \in 1..(i - 1) : Base(r, k) # Base(r, i) /\ docs[r][k].name = Base(r, i)
Suffixed(r, i) == dedup_filename(Base(r, i), [id |-> docs[r][i].id])

SameInput(r1, r2) ==
  /\ FinishedLoop(r1) /\ FinishedLoop(r2)
  /\ [i \in 1..Len(docs[r1]) |-> docs[r1][i].id]
       = [i \in 1..Len(docs[r2]) |-> docs[r2][i].id]

\* C13 as stated: of exactly two selected records with one date and slug the
\* first gets the unsuffixed name and the second the name suffixed with the
\* first 8 characters of its identifier; a record that is alone with its date
\* and slug gets the unsuffixed name; runs over the same input give the same
\* names.
C13_AsStated ==
  \A r \in Runs :
    FinishedLoop(r) =>
      /\ \A i \in 1..Len(docs[r]) :
           /\ Cardinality(SameKey(r, i)) = 1 => docs[r][i].name = Base(r, i)
           /\ Cardinality(SameKey(r, i)) = 2 =>
                \A j \in SameKey(r, i) :
                  i < j => /\ docs[r][i].name = Base(r, i)
                           /\ docs[r][j].name = Suffixed(r, j)
                           /\ docs[r][i].name # docs[r][j].name
      /\ \A r2 \in Runs : SameInput(r, r2) => docs[r] = docs[r2]

\* C13, amended: as stated whenever no earlier record of the run was written
\* to the unsuffixed name in question; a record that is alone with its date
\* and slug and finds its unsuffixed name taken gets the suffixed name.
C13_Dedup ==
  \A r \in Runs :
    FinishedLoop(r) =>
      /\ \A i \in 1..Len(docs[r]) :
           /\ Cardinality(SameKey(r, i)) = 1 =>
                docs[r][i].name = IF Taken(r, i) THEN Suffixed(r, i)
                                  ELSE Base(r, i)
           /\ Cardinality(SameKey(r, i)) = 2 /\ ~Taken(r, i) =>
                \A j \in SameKey(r, i) :
                  i < j => /\ docs[r][i].name = Base(r, i)
                           /\ docs[r][j].name = Suffixed(r, j)
                           /\ docs[r][i].name # docs[r][j].name
      /\ \A r2 \in Runs : SameInput(r, r2) => docs[r] = docs[r2]

C13_Witness ==
  \E r1, r2 \in Runs :
    /\ r1 # r2 /\ SameInput(r1, r2)
    /\ Len(docs[r1]) = 3
    /\ Cardinality(SameKey(r1, 1)) = 1 /\ docs[r1][1].name = Base(r1, 1)
    /\ Cardinality(SameKey(r1, 2)) = 2
    /\ docs[r1][2].name = Base(r1, 2)
    /\ docs[r1][3].name = Suffixed(r1, 3)

\* C14: a record written by a run that ended and written again by a later run
\* goes to the file name it went to before, and the later run writes to a
\* name the earlier run used only for the same record.
C14_StablePath ==
  \A r1, r2 \in Runs :
    pc[r1] \in Terminal /\ startAt[r2] > endAt[r1] =>
      \A i \in 1..Len(docs[r1]), j \in 1..Len(docs[r2]) :
        /\ docs[r1][i].id = docs[r2][j].id => docs[r1][i].name = docs[r2][j].name
        /\ docs[r1][i].name = docs[r2][j].name => docs[r1][i].id = docs[r2][j].id

\* C15: the instant a successful run stores in the state file is the instant
\* at which the run started, so it is not later than any reading of the clock
\* the run made after it loaded the cache.  A run that found no instant in
\* the state file read the clock in get_cutoff, after the cache was loaded:
\* that reading is its cutoff plus 30 days.
FellBack(r) == wmAtStart[r].kind \in {"absent", "empty", "garbage"}

C15_StartTime ==
  \A r \in Runs :
    Succeeded(r) /\ FellBack(r) =>
      wmAtEnd[r].s * TicksPerSecond <= cutoff[r] + Lookback

\* C16: a run whose write of the state file failed after it wrote documents
\* ended with a non-zero exit status and without the lock, its documents are
\* in the inbox, and the instant it found in the state file is still there,
\* so that the next run has the cutoff this run had.
CommitFailed(r) ==
  pc[r] = "Raised" /\ endedIn[r] = "Committing" /\ written[r] >= 1

C16_CommitFailure ==
  \A r \in Runs :
    CommitFailed(r) =>
      /\ exit[r] # 0
      /\ lock # r
      /\ \A i \in 1..Len(docs[r]) :
           \E f \in inboxAtEnd[r] : f.name = docs[r][i].name
      /\ wmAtStart[r].kind = "instant" =>
           /\ wmAtEnd[r] = wmAtStart[r]
           /\ \A r2 \in Runs : NextAfter(r, r2) => cutoff[r2] = cutoff[r]

\* C17: loading the cutoff never ends the run; the cutoff is the instant the
\* state file holds, white space around it ignored, and now minus 30 days
\* when the file is missing, empty or not an instant, with a warning logged
\* when the content is not an instant and none when the file is missing.
PastCutoff(r) ==
  \/ pc[r] \in {"Selecting", "Writing", "Committing"}
  \/ endedIn[r] \in {"Selecting", "Writing", "Committing"}

Warned(r) == \E i \in 1..Len(logs[r]) : logs[r][i] = "invalid state file"

C17_LoadFallback ==
  \A r \in Runs :
    /\ pc[r] = "Raised" => endedIn[r] # "CacheLoaded"
    /\ PastCutoff(r) =>
         /\ wmAtStart[r].kind \in {"instant", "padded"} =>
              cutoff[r] = wmAtStart[r].s * TicksPerSecond /\ ~Warned(r)
         /\ wmAtStart[r].kind \in {"absent", "empty", "garbage"} =>
              cutoff[r] + Lookback \in ClockInit..clock
         /\ wmAtStart[r].kind = "garbage" => Warned(r)
         /\ wmAtStart[r].kind = "absent" => ~Warned(r)

\* the i-th character of a text of one-character runs, "" past its end
RECURSIVE CharAt(_, _)
CharAt(t, i) ==
  IF t = <<>> THEN ""
  ELSE IF i <= Head(t).n THEN Head(t).c
  ELSE CharAt(Tail(t), i - Head(t).n)

Section == result.lines[Len(result.lines)]
NonBlank(body) == body.present /\ ~TBlank(body.runs)

\* sec is the first TRANSCRIPT_CAP characters of t and then the marker
IsTruncation(sec, t) ==
  /\ TLen(sec) = TRANSCRIPT_CAP + Len(Str_truncated)
  /\ \A i \in 1..TRANSCRIPT_CAP : CharAt(sec, i) = CharAt(t, i)
  /\ \A i \in 1..Len(Str_truncated) :
       CharAt(sec, TRANSCRIPT_CAP + i) = Str_truncated[i]

\* C18 as stated: a non-blank transcript of at most TRANSCRIPT_CAP characters
\* is the transcript section as it is; a transcript of more characters appears
\* as its first TRANSCRIPT_CAP characters followed by the marker.
C18_AsStated ==
  result.kind = "doc" =>
    LET transcript == probe.transcript
    IN /\ NonBlank(transcript) /\ TLen(transcript.runs) <= TRANSCRIPT_CAP =>
            Section = transcript.runs
       /\ transcript.present /\ TLen(transcript.runs) >= TRANSCRIPT_CAP + 1 =>
            IsTruncation(Section, transcript.runs)

\* C18, amended: the second part holds of the non-blank transcripts; a
\* transcript of white space only, whatever its length, gives the line "No
\* transcript available".
C18_Truncation ==
  result.kind = "doc" =>
    LET transcript == probe.transcript
    IN /\ NonBlank(transcript) /\ TLen(transcript.runs) <= TRANSCRIPT_CAP =>
            Section = transcript.runs
       /\ NonBlank(transcript) /\ TLen(transcript.runs) >= TRANSCRIPT_CAP + 1 =>
            IsTruncation(Section, transcript.runs)
       /\ ~NonBlank(transcript) => Section = Lit("No transcript available")

C18_Witness ==
  /\ result.kind = "doc"
  /\ probe.transcript = Body(Run("a", TRANSCRIPT_CAP) \o Run("z", 1))
  /\ Section = Run("a", TRANSCRIPT_CAP) \o Chars(Str_truncated)

\* the fields of the probed record that are present, non-empty and parse
Yielding ==
  {i \in 1..Len(Fields) :
     /\ ~Falsy(probe.meeting.ts[i])
     /\ parse_field(probe.meeting.ts[i]).ok}
FirstYielding == CHOOSE i \in Yielding : \A j \in Yielding : i <= j

\* C19: get_updated_at returns the instant of the first of updated_at,
\* created_at, createdAt that is present, non-empty and parses; no field
\* value ends the search with an exception; the result is unresolved exactly
\* when no field yields an instant, and then the record is skipped.
C19_FallThrough ==
  result.kind = "resolved" =>
    /\ result.updated.error = ""
    /\ Yielding # {} =>
         result.updated = parse_field(probe.meeting.ts[FirstYielding])
    /\ Yielding = {} <=> ~result.updated.ok
    /\ ~result.updated.ok => result.verdict = "skip"

\* C20: an instant resolved from a textual field value carries no zone
\* offset, and comparing it with the cutoff raises nothing.
C20_NaiveText ==
  result.kind = "resolved" /\ result.updated.ok
      /\ probe.meeting.ts[FirstYielding].kind = "str" =>
    /\ ~result.updated.aware
    /\ result.verdict \in {"skip", "select"}

\* the value of updated_at, and what the fields after it resolve to
First == probe.meeting.ts[1]
Numeric(val) == val.kind = "int" /\ ~(val.hi = 0 /\ val.lo = 0)
AtMost1e12(val) == val.hi < Million \/ (val.hi = Million /\ val.lo = 0)
Rest == updated_from(probe.meeting, 2)

\* u is the naive instant val seconds, and val milliseconds, after the epoch
\* (the origin of the ticks is 10^9 s after it)
IsSeconds(u, val) ==
  /\ u.ok /\ ~u.aware /\ u.error = ""
  /\ u.t % TicksPerSecond = 0
  /\ val.hi = 1000 + (u.t \div TicksPerSecond) \div Million
  /\ val.lo = (u.t \div TicksPerSecond) % Million
IsMillis(u, val) ==
  /\ u.ok /\ ~u.aware /\ u.error = ""
  /\ val.hi = Million + (u.t \div TicksPerSecond) \div 1000
  /\ val.lo \div 1000 = (u.t \div TicksPerSecond) % 1000
  /\ u.t % TicksPerSecond = ((val.lo % 1000) * TicksPerSecond) \div 1000

\* C21 as stated: a number above 10^12 in updated_at resolves as that many
\* milliseconds, a non-zero number up to 10^12, 10^12 included, as that many
\* seconds, and 0 passes the search on to the next field.
C21_AsStated ==
  result.kind = "resolved" =>
    /\ Numeric(First) /\ ~AtMost1e12(First) => IsMillis(result.updated, First)
    /\ Numeric(First) /\ AtMost1e12(First) => IsSeconds(result.updated, First)
    /\ First.kind = "int" /\ ~Numeric(First) => result.updated = Rest

\* C21, amended: the number is read as milliseconds above 10^12 and as
\* seconds otherwise, 10^12 included; it resolves to that instant when the
\* instant is not after the year 9999, and otherwise the search goes on to the
\* next field, as it does for 0; a number out of the range of time_t ends the
\* search with OverflowError.
C21_Threshold ==
  result.kind = "resolved" =>
    /\ Numeric(First) /\ ~AtMost1e12(First) =>
         IF MsYearOutOfRange(First) THEN result.updated = Rest
         ELSE IsMillis(result.updated, First)
    /\ Numeric(First) /\ AtMost1e12(First) =>
         IF YearOutOfRange(First) THEN result.updated = Rest
         ELSE IsSeconds(result.updated, First)
    /\ First.kind = "int" /\ ~Numeric(First) => result.updated = Rest
    /\ First = NumHuge => result.updated = Uncaught("OverflowError")

C21_Witness ==
  /\ result.kind = "resolved"
  /\ First = IntMs(0, 0)
  /\ probe.meeting.ts[2] = IntMs(W0 + 2, 500)
  /\ result.updated = Resolved((W0 + 2) * TicksPerSecond + 1, FALSE)

\* the line of a section: the body when it is non-blank, else the placeholder
SectionLine(body, placeholder) ==
  IF NonBlank(body) THEN body.runs ELSE Lit(placeholder)

\* the document has the fixed shape and the three sections of the probed record
Shaped(lines) ==
  /\ Len(lines) = 15
  /\ lines[1] = Lit("# Meeting: ") \o Chars(probe.title)
  /\ lines[3][1].c = "**Date**: "
  /\ (probe.date.day = "") <=> (lines[3] = Lit("**Date**: ") \o Lit("Unknown"))
  /\ lines[4][1].c = "**Participants**: "
  /\ (probe.participants = <<>>)
       <=> (lines[4] = Lit("**Participants**: ") \o Lit("Unknown"))
  /\ lines[5] = Lit("**Source**: granola")
  /\ lines[6] = Lit("**Meeting ID**: ") \o Chars(probe.id)
  /\ lines[8] = Lit("## Notes")
  /\ lines[9] = SectionLine(probe.notes, "No notes available")
  /\ lines[11] = Lit("## Summary")
  /\ lines[12] = SectionLine(probe.summary, "No summary available")
  /\ lines[14][1].c = "## Transcript Highlights"
  /\ (lines[15] = Lit("No transcript available")) <=> ~NonBlank(probe.transcript)

\* C22: format_inbox_file returns a document for every record, whatever
\* bodies are absent, and the document has the title heading, the metadata
\* block and the Notes, Summary and Transcript sections in this order, each
\* section holding its body when that is non-blank and its placeholder line
\* exactly when the body is absent, empty or white space only.
C22_Total ==
  result.kind # "none" =>
    /\ result.kind = "doc"
    /\ Shaped(result.lines)

\* the instant the record was last updated at
UpdateInstant(m) == get_updated_at(m).t

\* the record came into the cache after run r had loaded it, and its update
\* instant is earlier than the watermark run r committed
Missed(r, m) ==
  /\ Succeeded(r)
  /\ \A i \in 1..Len(meetings[r]) : meetings[r][i] # m
  /\ has_content(m)
  /\ get_updated_at(m).ok
  /\ UpdateInstant(m) < wmAtEnd[r].s * TicksPerSecond

Loaded(r, m) == \E i \in 1..Len(meetings[r]) : meetings[r][i] = m
Wrote(r, m) == \E i \in 1..Len(docs[r]) : docs[r][i].id = m.id

\* C23: when every run has succeeded, a record with content that came into
\* the cache while a run was in progress, updated at or after the moment
\* that run loaded the cache and before the watermark it committed, and that
\* a later run has loaded, has been written by some run.
C23_NoLostUpdate ==
  (\A r \in Runs : Succeeded(r)) =>
    \A r1 \in Runs : \A i \in 1..Len(cache.records) :
      LET m == cache.records[i]
      IN (/\ Missed(r1, m)
          /\ \E r2 \in Runs : startAt[r2] > endAt[r1] /\ Loaded(r2, m))
         => \E r2 \in Runs : Wrote(r2, m)

\* run r2 found in the state file the text the successful run r1 had written
\* there, and has taken its cutoff from it
Reloads(r1, r2) ==
  /\ Succeeded(r1)
  /\ startAt[r2] > endAt[r1]
  /\ wmAtStart[r2] = wmAtEnd[r1]
  /\ PastCutoff(r2)

\* the instants so far that line 202 writes as the text sf
InstantsOf(sf) == {c \in ClockInit..clock : format_now(c) = sf}

====
